---------------------------- MODULE Spec2Model ----------------------------
(***************************************************************************)
(* A model of github.com/fjl/sds: the MIDI Sample Dump Standard codec      *)
(* (package sds), the SendOp transfer session (sds/transfer.go) and the    *)
(* sender program's handshake loops doTransfer / transferData.             *)
(*                                                                         *)
(* Go sequences are 0-based, TLA+ sequences are 1-based: byte i of a Go    *)
(* slice is element i+1 of the sequence that models it.                    *)
(***************************************************************************)
EXTENDS Integers, Sequences, FiniteSets, TLC

(***************************************************************************)
(* Machine arithmetic.  A Go byte is an integer in 0..255.  A Go uint is   *)
(* 64 bits wide; a uint obtained from a negative int x is 2^64 + x.  The   *)
(* model keeps the mathematical integer x and takes the bytes the code     *)
(* takes of it with floor division and non-negative remainder: 2^64 is a   *)
(* multiple of 2^(k+8) for every shift k the code uses, so the low byte of *)
(* (2^64 + x) >> k is (x \div 2^k) % 256 and that of (2^64 + x) << k is    *)
(* (x * 2^k) % 256.                                                        *)
(***************************************************************************)
\* byte(x): conversion of an unsigned value to its low 8 bits.
ToByte(x) == x % 256

\* byte(x >> k) of a uint x.
ByteShr(x, k) == (x \div (2 ^ k)) % 256

\* byte(x << k) of a uint x, for 0 <= k <= 8.  (x * 2^k) % 256 is computed as
\* (x % 2^(8-k)) * 2^k, which is the same number and stays small.
ByteShl(x, k) == (x % (2 ^ (8 - k))) * (2 ^ k)

\* x & 0x7F and x & 0x3F: the low 7 and the low 6 bits of x.
And7F(x) == x % 128
And3F(x) == x % 64

\* uint(b) >> k and uint(b) << k of a byte b.
Shr(x, k) == x \div (2 ^ k)
Shl(x, k) == x * (2 ^ k)

\* hi | lo where hi is a value shifted left by k bits and lo < 2^k, which is
\* every use of | in the decoders: the operands share no bit, and the bitwise
\* or is their sum.
Or(hi, lo) == hi + lo

\* a ^ b of two bytes, bit by bit ...
RECURSIVE BitXor(_, _)
BitXor(a, b) ==
    IF a = 0 THEN b
    ELSE IF b = 0 THEN a
    ELSE (((a % 2) + (b % 2)) % 2) + 2 * BitXor(a \div 2, b \div 2)

\* ... tabulated for 4-bit halves, and applied to the two halves of a byte.
Xor4 == [a \in 0..15 |-> [b \in 0..15 |-> BitXor(a, b)]]

Xor(a, b) == 16 * Xor4[a \div 16][b \div 16] + Xor4[a % 16][b % 16]

(***************************************************************************)
(* Messages (package sds).  A message is a record tagged by its Go type.   *)
(***************************************************************************)
Ack == 127
Nak == 126
Cancel == 125
Wait == 124

dumpHeaderSize == 21
dumpRequestSize == 7
dataPacketSize == 127
controlPacketSize == 6

\* len(msg.Data) of a DataPacket.
DataLen == 120

ZeroData == [i \in 1..DataLen |-> 0]

\* The nil Message.
NilMsg == [kind |-> "nil"]

DumpHeader(ch, num, depth, period, length, ls, le, lt) ==
    [kind |-> "DumpHeader", Channel |-> ch, Number |-> num, BitDepth |-> depth,
     Period |-> period, Length |-> length, LoopStart |-> ls, LoopEnd |-> le,
     LoopType |-> lt]

DumpRequest(ch, num) == [kind |-> "DumpRequest", Channel |-> ch, Number |-> num]

DataPacket(ch, pn, data, cs) ==
    [kind |-> "DataPacket", Channel |-> ch, PacketNumber |-> pn, Data |-> data,
     Checksum |-> cs]

ControlPacket(type, ch, pn) ==
    [kind |-> "ControlPacket", Type |-> type, Channel |-> ch, PacketNumber |-> pn]

append14bit(b, num) ==
    b \o << And7F(ToByte(num)), And7F(ByteShr(num, 7)) >>

\* append20bit with the high group cut to 5 bits (& 0x1F).
append20bitHigh5(b, num) ==
    b \o << And7F(ToByte(num)), And7F(ByteShr(num, 7)), ByteShr(num, 14) % 32 >>

append20bit(b, num) ==
    b \o << And7F(ToByte(num)), And7F(ByteShr(num, 7)),
            And3F(ByteShr(num, 14)) >>

EncodeDumpHeader(msg, b) ==
    LET b1 == b \o << 240, 126, And7F(msg.Channel), 1 >>
        b2 == append14bit(b1, msg.Number)
        b3 == b2 \o << And7F(msg.BitDepth) >>
        b4 == append20bit(b3, msg.Period)
        b5 == append20bit(b4, msg.Length)
        b6 == append20bit(b5, msg.LoopStart)
        b7 == append20bit(b6, msg.LoopEnd)
        b8 == b7 \o << And7F(msg.LoopType) >>
    IN  b8 \o << 247 >>

\* DataPacket.Encode writing the channel byte as it is.
EncodeDataPacketRawChannel(msg, b) ==
    LET b1 == b \o << 240, 126, msg.Channel, 2 >>
        b2 == b1 \o << And7F(msg.PacketNumber) >>
        b3 == b2 \o msg.Data
        b4 == b3 \o << And7F(msg.Checksum) >>
    IN  b4 \o << 247 >>

EncodeDataPacket(msg, b) ==
    LET b1 == b \o << 240, 126, And7F(msg.Channel), 2 >>
        b2 == b1 \o << And7F(msg.PacketNumber) >>
        b3 == b2 \o msg.Data
        b4 == b3 \o << And7F(msg.Checksum) >>
    IN  b4 \o << 247 >>

EncodeDumpRequest(msg, b) ==
    LET b1 == b \o << 240, 126, And7F(msg.Channel), 3 >>
        b2 == append14bit(b1, msg.Number)
    IN  b2 \o << 247 >>

EncodeControlPacket(msg, b) ==
    b \o << 240, 126, And7F(msg.Channel), And7F(ToByte(msg.Type)),
            And7F(msg.PacketNumber), 247 >>

\* Message.Encode: the interface method, dispatched on the dynamic type.
Encode(msg, b) ==
    CASE msg.kind = "DumpHeader" -> EncodeDumpHeader(msg, b)
      [] msg.kind = "DataPacket" -> EncodeDataPacket(msg, b)
      [] msg.kind = "DumpRequest" -> EncodeDumpRequest(msg, b)
      [] msg.kind = "ControlPacket" -> EncodeControlPacket(msg, b)

dec14bit(l, h) == Or(Shl(And7F(h), 7), And7F(l))

\* dec20bit with the middle group cut to 6 bits (m & 0x3F).
dec20bitMid6(l, m, h) ==
    Or(Shl(And3F(h), 14), Or(Shl(And3F(m), 7), And7F(l)))

dec20bit(l, m, h) ==
    Or(Shl(And3F(h), 14), Or(Shl(And7F(m), 7), And7F(l)))

\* The results of Decode: (Message, nil) or (nil, error).
Ok(m) == [ok |-> TRUE, msg |-> m]
Err(e) == [ok |-> FALSE, err |-> e]

\* msg[i] of Go, 0-based.
At(s, i) == s[i + 1]

decodeDumpHeader(msg) ==
    IF Len(msg) # dumpHeaderSize THEN Err("bad size")
    ELSE LET dec == DumpHeader(At(msg, 2),
                               dec14bit(At(msg, 4), At(msg, 5)),
                               At(msg, 6),
                               dec20bit(At(msg, 7), At(msg, 8), At(msg, 9)),
                               dec20bit(At(msg, 10), At(msg, 11), At(msg, 12)),
                               dec20bit(At(msg, 13), At(msg, 14), At(msg, 15)),
                               dec20bit(At(msg, 16), At(msg, 17), At(msg, 18)),
                               At(msg, 19))
         IN  IF dec.BitDepth < 8 \/ dec.BitDepth > 28
             THEN Err("unsupported bit depth")
             ELSE Ok(dec)

\* decodeDataPacket rejecting a checksum byte that is not a 7-bit value
\* (errChecksum).
decodeDataPacketVerifying(msg) ==
    IF Len(msg) # dataPacketSize THEN Err("bad size")
    ELSE IF At(msg, 125) > 127 THEN Err("bad checksum")
    ELSE Ok(DataPacket(At(msg, 2), At(msg, 4), SubSeq(msg, 6, 125), At(msg, 125)))

decodeDataPacket(msg) ==
    IF Len(msg) # dataPacketSize THEN Err("bad size")
    ELSE Ok(DataPacket(At(msg, 2), At(msg, 4), SubSeq(msg, 6, 125), At(msg, 125)))

decodeDumpRequest(msg) ==
    IF Len(msg) # dumpRequestSize THEN Err("bad size")
    ELSE Ok(DumpRequest(At(msg, 2), dec14bit(At(msg, 4), At(msg, 5))))

decodeControlPacket(msg) ==
    IF Len(msg) # controlPacketSize THEN Err("bad size")
    ELSE Ok(ControlPacket(At(msg, 3), At(msg, 2), At(msg, 4)))

\* bytes.HasPrefix(sysex, prefix) with prefix = {0xF0, 0x7E}.
HasPrefix(sysex) == Len(sysex) >= 2 /\ sysex[1] = 240 /\ sysex[2] = 126

\* Decode testing the length ahead of the framing.
DecodeLengthFirst(sysex) ==
    IF Len(sysex) < 4 THEN Err("message too short")
    ELSE IF ~HasPrefix(sysex) \/ sysex[Len(sysex)] # 247 THEN Err("not a sysex message")
    ELSE CASE At(sysex, 3) = 1 -> decodeDumpHeader(sysex)
           [] At(sysex, 3) = 2 -> decodeDataPacket(sysex)
           [] At(sysex, 3) = 3 -> decodeDumpRequest(sysex)
           [] At(sysex, 3) \in {124, 125, 126, 127} -> decodeControlPacket(sysex)
           [] OTHER -> Err("invalid message id")

Decode(sysex) ==
    IF ~HasPrefix(sysex) \/ sysex[Len(sysex)] # 247 THEN Err("not a sysex message")
    ELSE IF Len(sysex) < 4 THEN Err("message too short")
    ELSE CASE At(sysex, 3) = 1 -> decodeDumpHeader(sysex)
           [] At(sysex, 3) = 2 -> decodeDataPacket(sysex)
           [] At(sysex, 3) = 3 -> decodeDumpRequest(sysex)
           [] At(sysex, 3) \in {124, 125, 126, 127} -> decodeControlPacket(sysex)
           [] OTHER -> Err("invalid message id")

\* The loop of ComputeChecksum running over the checksum byte as well (the
\* indices 0 .. dataPacketSize-2).
RECURSIVE ChecksumLoopLong(_, _, _)
ChecksumLoopLong(buf, c, i) ==
    IF i > dataPacketSize - 2 \/ c \notin 0..255 THEN c
    ELSE ChecksumLoopLong(buf, Xor(c, At(buf, i)), i + 1)

\* The loop of ComputeChecksum: c ^= buf[i] for i over the indices of the
\* slice buf[1 : dataPacketSize-1], which are 0 .. dataPacketSize-3.  c is a
\* byte; testing that at every iteration also makes the model checker evaluate
\* c step by step, as the loop does.
RECURSIVE ChecksumLoop(_, _, _)
ChecksumLoop(buf, c, i) ==
    IF i > dataPacketSize - 3 \/ c \notin 0..255 THEN c
    ELSE ChecksumLoop(buf, Xor(c, At(buf, i)), i + 1)

\* ComputeChecksum with the loop running over the checksum byte.
ComputeChecksumOverField(msg) ==
    LET buf == EncodeDataPacket(msg, << >>)
    IN  And7F(ChecksumLoopLong(buf, At(buf, 0), 0))

ComputeChecksum(msg) ==
    LET buf == EncodeDataPacket(msg, << >>)
    IN  And7F(ChecksumLoop(buf, At(buf, 0), 0))

(***************************************************************************)
(* Sample packing (DataPacket.SetSamples / GetSamples).  uint(samples[si]) *)
(* + zero is kept as the mathematical integer samples[si] + zero; see      *)
(* "Machine arithmetic" above for the bytes taken from it.                 *)
(*                                                                         *)
(* Each write loop advances si by 1 and di by the group size g from (0,0)  *)
(* while si < len(samples) && di < len(msg.Data): it runs Written(samples, *)
(* g) times, sample si filling bytes g*si .. g*si+g-1, and the second loop *)
(* zeroes every byte from di = g * Written on.  Data is given here byte by *)
(* byte as those two loops leave it.                                       *)
(***************************************************************************)
Min(a, b) == IF a < b THEN a ELSE b

\* Iterations of the encoding loop for groups of g bytes.
Written(samples, g) == Min(Len(samples), DataLen \div g)

\* Byte j of the group of sample value smp (write2's loop body).
write2Byte(smp, bits, j) ==
    LET s == smp + 2 ^ (bits - 1)
    IN  IF j = 0 THEN And7F(ByteShr(s, bits - 7))
        ELSE And7F(ByteShl(s, 14 - bits))

\* write2 without its second loop: the bytes after the last written group
\* keep what msg.Data held.
write2KeepsTail(msg, samples, bits) ==
    LET n == Written(samples, 2)
    IN  [msg |-> [msg EXCEPT !.Data =
                    [i \in 1..DataLen |->
                        IF (i - 1) \div 2 < n
                        THEN write2Byte(samples[((i - 1) \div 2) + 1], bits, (i - 1) % 2)
                        ELSE msg.Data[i]]],
         rest |-> SubSeq(samples, n + 1, Len(samples))]

write2(msg, samples, bits) ==
    LET n == Written(samples, 2)
    IN  [msg |-> [msg EXCEPT !.Data =
                    [i \in 1..DataLen |->
                        IF (i - 1) \div 2 < n
                        THEN write2Byte(samples[((i - 1) \div 2) + 1], bits, (i - 1) % 2)
                        ELSE 0]],
         rest |-> SubSeq(samples, n + 1, Len(samples))]

write3Byte(smp, bits, j) ==
    LET s == smp + 2 ^ (bits - 1)
    IN  IF j = 0 THEN And7F(ByteShr(s, bits - 7))
        ELSE IF j = 1 THEN And7F(ByteShr(s, bits - 14))
        ELSE And7F(ByteShl(s, 21 - bits))

write3(msg, samples, bits) ==
    LET n == Written(samples, 3)
    IN  [msg |-> [msg EXCEPT !.Data =
                    [i \in 1..DataLen |->
                        IF (i - 1) \div 3 < n
                        THEN write3Byte(samples[((i - 1) \div 3) + 1], bits, (i - 1) % 3)
                        ELSE 0]],
         rest |-> SubSeq(samples, n + 1, Len(samples))]

\* write4 with the third byte taken one bit too high (s >> (bits - 20)).
write4ByteShiftedThird(smp, bits, j) ==
    LET s == smp + 2 ^ (bits - 1)
    IN  IF j = 0 THEN And7F(ByteShr(s, bits - 7))
        ELSE IF j = 1 THEN And7F(ByteShr(s, bits - 14))
        ELSE IF j = 2 THEN And7F(ByteShr(s, bits - 20))
        ELSE And7F(ByteShl(s, 28 - bits))

write4Byte(smp, bits, j) ==
    LET s == smp + 2 ^ (bits - 1)
    IN  IF j = 0 THEN And7F(ByteShr(s, bits - 7))
        ELSE IF j = 1 THEN And7F(ByteShr(s, bits - 14))
        ELSE IF j = 2 THEN And7F(ByteShr(s, bits - 21))
        ELSE And7F(ByteShl(s, 28 - bits))

write4(msg, samples, bits) ==
    LET n == Written(samples, 4)
    IN  [msg |-> [msg EXCEPT !.Data =
                    [i \in 1..DataLen |->
                        IF (i - 1) \div 4 < n
                        THEN write4Byte(samples[((i - 1) \div 4) + 1], bits, (i - 1) % 4)
                        ELSE 0]],
         rest |-> SubSeq(samples, n + 1, Len(samples))]

\* The result of a call that panics.
Panic == [panic |-> TRUE]

\* SetSamples returns the packet as written (msg) and the remaining samples (rest).
SetSamples(msg, samples, bitDepth) ==
    CASE bitDepth < 8 -> Panic
      [] bitDepth >= 8 /\ bitDepth <= 14 -> write2(msg, samples, bitDepth)
      [] bitDepth > 14 /\ bitDepth <= 21 -> write3(msg, samples, bitDepth)
      [] bitDepth > 21 /\ bitDepth <= 28 -> write4(msg, samples, bitDepth)
      [] OTHER -> Panic

\* The read loops: buf[bufIndex] for the group that starts at byte i.
read2Value(data, bits, i) ==
    LET v1 == Shl(And7F(At(data, i)), bits - 7)
        v  == Or(v1, Shr(And7F(At(data, i + 1)), 14 - bits))
    IN  v - 2 ^ (bits - 1)

read2(msg, out, bits) ==
    out \o [k \in 1..(DataLen \div 2) |-> read2Value(msg.Data, bits, 2 * (k - 1))]

read3Value(data, bits, i) ==
    LET v1 == Shl(And7F(At(data, i)), bits - 7)
        v2 == Or(v1, Shl(And7F(At(data, i + 1)), bits - 14))
        v  == Or(v2, Shr(And7F(At(data, i + 2)), 21 - bits))
    IN  v - 2 ^ (bits - 1)

read3(msg, out, bits) ==
    out \o [k \in 1..(DataLen \div 3) |-> read3Value(msg.Data, bits, 3 * (k - 1))]

read4Value(data, bits, i) ==
    LET v1 == Shl(And7F(At(data, i)), bits - 7)
        v2 == Or(v1, Shl(And7F(At(data, i + 1)), bits - 14))
        v3 == Or(v2, Shl(And7F(At(data, i + 2)), bits - 21))
        v  == Or(v3, Shr(And7F(At(data, i + 3)), 28 - bits))
    IN  v - 2 ^ (bits - 1)

read4(msg, out, bits) ==
    out \o [k \in 1..(DataLen \div 4) |-> read4Value(msg.Data, bits, 4 * (k - 1))]

GetSamples(msg, s, bitDepth) ==
    CASE bitDepth < 8 -> Panic
      [] bitDepth >= 8 /\ bitDepth <= 14 -> read2(msg, s, bitDepth)
      [] bitDepth > 14 /\ bitDepth <= 21 -> read3(msg, s, bitDepth)
      [] bitDepth > 21 /\ bitDepth <= 28 -> read4(msg, s, bitDepth)
      [] OTHER -> Panic

(***************************************************************************)
(* State.                                                                  *)
(***************************************************************************)
VARIABLES
    \* the sender: the caller's input and the session
    wave,       \* the caller's sample buffer (waveform.Data, samples)
    bits,       \* the caller's bit depth (waveform.SourceBitDepth, bitDepth)
    header,     \* the DumpHeader handed to NewSendOp
    transfer,   \* the SendOp (transfer in doTransfer, send in encodeSDS)
    nanInt,     \* what int(NaN) yields on this build (Progress of an empty buffer)
    \* encodeSDS / loadSDS
    output,     \* encodeSDS: the frames appended to output so far
    phase,      \* position in the encodeSDS / loadSDS run
    r,          \* loadSDS: the sdsFile being read (header, samples) and the frame index
    \* one message through Encode, Decode and ComputeChecksum
    tmsg,       \* the message
    enc,        \* its encoding
    dec,        \* the result of Decode(enc)
    cs,         \* ComputeChecksum of the decoded data packet
    step,       \* position in that run
    \* the send program (doTransfer, transferData) and its connection
    cfg,        \* sendConfig: Channel, WaveformNumber
    pc,         \* position of the program
    waiting,    \* the local "waiting" of the function the program is in
    progress,   \* transferData's "progress"
    msg,        \* what receive returned last (NilMsg: nil, the timeout)
    dropped,    \* receive's rawmsg when the running receive dropped a frame last
    PacketCh,   \* conn.PacketCh: the frames queued by the listener
    sent,       \* the frames written with conn.Write, in order
    midiIn,     \* number of MIDI messages the input driver has delivered
    waitSeen,   \* history: doTransfer has received a Wait on its channel
    \* one packet through SetSamples (TestSetSamplesLengths)
    pkt,        \* the DataPacket (msg)
    rem,        \* the samples SetSamples returned last
    \* one number through the 20-bit codec (Test20bit)
    tnum,       \* test.num
    tdec        \* n := dec20bit(e[0], e[1], e[2])

sessVars == << wave, bits, header, transfer, nanInt >>
fileVars == << output, phase, r >>
codecVars == << tmsg, enc, dec, cs, step, tnum, tdec >>
progVars == << cfg, pc, waiting, progress, msg, dropped, PacketCh, sent, midiIn,
              waitSeen >>
packVars == << pkt, rem >>

vars == << wave, bits, header, transfer, nanInt, output, phase, r,
           tmsg, enc, dec, cs, step,
           cfg, pc, waiting, progress, msg, dropped, PacketCh, sent, midiIn,
           waitSeen, pkt, rem, tnum, tdec >>

(***************************************************************************)
(* SendOp (sds/transfer.go).                                               *)
(***************************************************************************)
\* NewSendOp stamps h.Length and returns the session; s.data is the zero
\* DataPacket with the header's channel.
NewSendOp(samples, h) ==
    [h |-> [h EXCEPT !.Length = Len(samples)],
     s |-> [length |-> Len(samples),
            bitDepth |-> h.BitDepth,
            samples |-> samples,
            data |-> DataPacket(h.Channel, 0, ZeroData, 0),
            num |-> 0]]

\* NewSendOp on a slice of n samples, the session without its field samples:
\* the slice is stored as it is, and only len(samples) is read.
NewSendOpOfLen(n, h) ==
    [h |-> [h EXCEPT !.Length = n],
     s |-> [length |-> n,
            bitDepth |-> h.BitDepth,
            data |-> DataPacket(h.Channel, 0, ZeroData, 0),
            num |-> 0]]

\* Done holding one sample early.
DoneEarly(s) == Len(s.samples) <= 1

Done(s) == Len(s.samples) = 0

\* float64 evaluation of (done/length)*100 when the exact value is k + 1/2:
\* the quotient done/length is rounded to a float64 first, and for these k the
\* product falls just below k + 1/2, so math.Round yields k.  For every other
\* k the product is k + 1/2 or above, and math.Round (half away from zero)
\* yields k + 1.  Off a tie the float64 error (below 1e-13) is smaller than
\* the distance 1/(2*length) to the nearest half, and rounding is exact.
FloatTieDown == {14, 28, 56, 57}

\* int(math.Round((float64(done) / float64(s.length)) * 100)).  With s.length
\* = 0 the quotient is NaN, and the conversion of NaN to int is
\* implementation-dependent: nanInt.
Progress(s) ==
    LET done == s.length - Len(s.samples)
        k    == (100 * done) \div s.length
        rem2 == 200 * done - 2 * k * s.length
    IN  IF s.length = 0 THEN nanInt
        ELSE IF rem2 > s.length THEN k + 1
        ELSE IF rem2 < s.length THEN k
        ELSE IF k \in FloatTieDown THEN k
        ELSE k + 1

\* nextNumber wrapping one step late (n >= 128), so that 128 is handed out.
nextNumberWrapLate(s) ==
    LET n == s.num
    IN  [n |-> n, s |-> [s EXCEPT !.num = IF n >= 128 THEN 0 ELSE n + 1]]

\* nextNumber returns n and leaves s.num advanced.
nextNumber(s) ==
    LET n == s.num
    IN  [n |-> n, s |-> [s EXCEPT !.num = IF n >= 127 THEN 0 ELSE n + 1]]

\* NextMessage taking the next number before it looks at Done.
NextMessageCountsWhenDone(s) ==
    LET nn == nextNumber(s)
    IN  IF Done(s) THEN [msg |-> NilMsg, s |-> nn.s]
        ELSE LET w  == SetSamples(s.data, s.samples, s.bitDepth)
                 s1 == [nn.s EXCEPT !.samples = w.rest, !.data = w.msg]
                 s2 == [s1 EXCEPT !.data.PacketNumber = nn.n]
                 s3 == [s2 EXCEPT !.data.Checksum = ComputeChecksum(s2.data)]
             IN  [msg |-> s3.data, s |-> s3]

\* NextMessage with the checksum computed ahead of the packet number.
NextMessageChecksumFirst(s) ==
    IF Done(s) THEN [msg |-> NilMsg, s |-> s]
    ELSE LET w  == SetSamples(s.data, s.samples, s.bitDepth)
             s1 == [s EXCEPT !.samples = w.rest, !.data = w.msg]
             s2 == [s1 EXCEPT !.data.Checksum = ComputeChecksum(s1.data)]
             nn == nextNumber(s2)
             s3 == [nn.s EXCEPT !.data.PacketNumber = nn.n]
         IN  [msg |-> s3.data, s |-> s3]

\* NextMessage returns the message (or nil) and leaves the session advanced.
NextMessage(s) ==
    IF Done(s) THEN [msg |-> NilMsg, s |-> s]
    ELSE LET w  == SetSamples(s.data, s.samples, s.bitDepth)
             s1 == [s EXCEPT !.samples = w.rest, !.data = w.msg]
             nn == nextNumber(s1)
             s2 == [nn.s EXCEPT !.data.PacketNumber = nn.n]
             s3 == [s2 EXCEPT !.data.Checksum = ComputeChecksum(s2.data)]
         IN  [msg |-> s3.data, s |-> s3]

(***************************************************************************)
(* The parts of the state a specification does not use stay as they are    *)
(* here.                                                                   *)
(***************************************************************************)
NoFile == [header |-> NilMsg, samples |-> << >>, i |-> 0, err |-> "nil"]

IdleSession ==
    /\ wave = << >>
    /\ bits = 0
    /\ header = NilMsg
    /\ transfer = NilMsg
    /\ nanInt = 0

IdleFile ==
    /\ output = << >>
    /\ phase = "idle"
    /\ r = NoFile

IdleCodec ==
    /\ tmsg = NilMsg
    /\ enc = << >>
    /\ dec = NilMsg
    /\ cs = 0
    /\ step = "idle"
    /\ tnum = 0
    /\ tdec = 0

IdlePack ==
    /\ pkt = NilMsg
    /\ rem = << >>

IdleProgram ==
    /\ cfg = [Channel |-> 0, WaveformNumber |-> 0]
    /\ pc = "idle"
    /\ waiting = FALSE
    /\ progress = 0
    /\ msg = NilMsg
    /\ dropped = << >>
    /\ PacketCh = << >>
    /\ sent = << >>
    /\ midiIn = 0
    /\ waitSeen = FALSE

(***************************************************************************)
(* Inputs: sample buffers.                                                 *)
(***************************************************************************)
\* Samples held by one packet at bit depth d: len(msg.Data) / bytes per sample.
PacketCap(d) == DataLen \div (IF d <= 14 THEN 2 ELSE IF d <= 21 THEN 3 ELSE 4)

\* Sample i (0-based) of the test signal at bit depth d: the smallest and the
\* largest value of the signed range -2^(d-1) .. 2^(d-1)-1, a value scattered
\* over the whole range, and a small negative one, in turn.
SampleAt(d, i) ==
    CASE i % 4 = 0 -> -(2 ^ (d - 1))
      [] i % 4 = 1 -> 2 ^ (d - 1) - 1
      [] i % 4 = 2 -> ((((i % 251) + 1) * 1234577) % (2 ^ d)) - 2 ^ (d - 1)
      [] i % 4 = 3 -> -((i % 127) + 1)

Signal(d, n) == [i \in 1..n |-> SampleAt(d, i - 1)]

\* Buffers of up to MaxShort samples, and buffers of one packet and of
\* MaxPackets packets that end one sample before, on, and one sample after
\* the packet boundary.
MaxShort == 2
MaxPackets == 7

Lengths(d) ==
    (0..MaxShort) \cup
    {k * PacketCap(d) + e : k \in {1, MaxPackets}, e \in {-1, 0, 1}}

\* The one long buffer: WrapPackets full packets at bit depth WrapDepth.
WrapPackets == 200
WrapDepth == 24

Depths == 8..28

samplerateToPeriod(rate) == 1000000000 \div rate

(***************************************************************************)
(* encodeSDS followed by loadSDS: the session run to completion, and its   *)
(* output read back.                                                       *)
(***************************************************************************)
\* encodeSDS up to its loop: h, send := NewSendOp(samples, h), output := h.Encode(nil).
EncodeInit(samples, bitDepth, rate) ==
    LET h  == DumpHeader(0, 0, ToByte(bitDepth), samplerateToPeriod(rate), 0, 0, 0, 0)
        op == NewSendOp(samples, h)
    IN  /\ wave = samples
        /\ bits = bitDepth
        /\ header = op.h
        /\ transfer = op.s
        /\ output = << EncodeDumpHeader(op.h, << >>) >>
        /\ phase = "encode"
        /\ r = NoFile

\* The values int(NaN) takes: 0 (arm64) and the smallest int (amd64), which
\* stands here as the smallest integer the model checker holds.
NaNInts == {0, -2147483647}

\* nanInt is read only by Progress of an empty buffer.
InitSendOp ==
    /\ \/ \E d \in Depths : \E n \in Lengths(d) :
            /\ EncodeInit(Signal(d, n), d, 44100)
            /\ nanInt \in IF n = 0 THEN NaNInts ELSE {0}
       \/ /\ EncodeInit(Signal(WrapDepth, WrapPackets * PacketCap(WrapDepth)),
                       WrapDepth, 44100)
          /\ nanInt = 0
    /\ IdleCodec
    /\ IdleProgram
    /\ IdlePack

\* One iteration of "for !send.Done() { output = send.NextMessage().Encode(output) }".
EncodeStep ==
    /\ phase = "encode"
    /\ ~Done(transfer)
    /\ LET nm == NextMessage(transfer)
       IN  /\ transfer' = nm.s
           /\ output' = Append(output, Encode(nm.msg, << >>))
    /\ UNCHANGED << wave, bits, header, nanInt, phase, r, codecVars, progVars, packVars >>

\* The loop ends; the output is handed to loadSDS.
EncodeReturn ==
    /\ phase = "encode"
    /\ Done(transfer)
    /\ phase' = "load"
    /\ UNCHANGED << sessVars, output, r, codecVars, progVars, packVars >>

\* One iteration of loadSDS over the frame readMessage returns.
LoadFrame(f, rawmsg) ==
    LET d == Decode(rawmsg)
    IN  IF ~d.ok THEN [f EXCEPT !.err = d.err]
        ELSE IF d.msg.kind = "DumpHeader"
             THEN IF f.header # NilMsg THEN [f EXCEPT !.err = "extra header"]
                  ELSE [f EXCEPT !.header = d.msg, !.i = f.i + 1]
        ELSE IF d.msg.kind = "DataPacket"
             THEN IF f.header = NilMsg THEN [f EXCEPT !.err = "data packet before header"]
                  ELSE IF ComputeChecksum(d.msg) # d.msg.Checksum
                       THEN [f EXCEPT !.err = "checksum"]
                  ELSE [f EXCEPT !.samples = GetSamples(d.msg, f.samples, f.header.BitDepth),
                                 !.i = f.i + 1]
        ELSE [f EXCEPT !.i = f.i + 1]

LoadStep ==
    /\ phase = "load"
    /\ r.i < Len(output)
    /\ r.err = "nil"
    /\ r' = LoadFrame(r, output[r.i + 1])
    /\ UNCHANGED << sessVars, output, phase, codecVars, progVars, packVars >>

\* readMessage returns io.EOF, or an iteration has returned an error.
LoadReturn ==
    /\ phase = "load"
    /\ r.i = Len(output) \/ r.err # "nil"
    /\ phase' = "loaded"
    /\ UNCHANGED << sessVars, output, r, codecVars, progVars, packVars >>

NextSendOp == EncodeStep \/ EncodeReturn \/ LoadStep \/ LoadReturn

SpecSendOp == InitSendOp /\ [][NextSendOp]_vars

(***************************************************************************)
(* The head of encodeSDS and of doTransfer on its own: the header is made, *)
(* NewSendOp stamps it with the buffer's length, and it is encoded.  The   *)
(* buffers include ones at and beyond the 2^20 samples the header's length *)
(* field can carry; NewSendOp takes a slice of any length.  The slice is   *)
(* held by its length, transfer.length: neither NewSendOp nor Encode reads *)
(* a sample.                                                               *)
(***************************************************************************)
LongLengths == {(2 ^ 20) - 1, 2 ^ 20, (2 ^ 20) + 5, 2 ^ 21}

StampLengths(d) == Lengths(d) \cup LongLengths

\* h := &DumpHeader{BitDepth: byte(bitDepth), Period: samplerateToPeriod(sampleRate)}
InitStamp ==
    /\ bits \in Depths
    /\ header = DumpHeader(0, 0, ToByte(bits), samplerateToPeriod(44100), 0, 0, 0, 0)
    /\ wave = << >>
    /\ transfer = NilMsg
    /\ nanInt = 0
    /\ output = << >>
    /\ phase = "new"
    /\ r = NoFile
    /\ IdleCodec
    /\ IdleProgram
    /\ IdlePack

\* send := NewSendOp(samples, h), len(samples) being n
StampHeader ==
    /\ phase = "new"
    /\ \E n \in StampLengths(bits) :
         \E op \in {NewSendOpOfLen(n, header)} :
            /\ header' = op.h
            /\ transfer' = op.s
    /\ phase' = "stamped"
    /\ UNCHANGED << wave, bits, nanInt, output, r, codecVars, progVars, packVars >>

\* output := h.Encode(nil)
EncodeHeader ==
    /\ phase = "stamped"
    /\ output' = << EncodeDumpHeader(header, << >>) >>
    /\ phase' = "headed"
    /\ UNCHANGED << sessVars, r, codecVars, progVars, packVars >>

NextStamp == StampHeader \/ EncodeHeader

SpecStamp == InitStamp /\ [][NextStamp]_vars

(***************************************************************************)
(* A session called from outside: NextMessage is called again and again,   *)
(* whether or not the session is Done.  tmsg holds what the call returned   *)
(* last, step whether a call has been made on a session that was Done.     *)
(***************************************************************************)
CallLengths(d) == (0..MaxShort) \cup {PacketCap(d), PacketCap(d) + 1}

InitSession ==
    /\ \E d \in Depths : \E n \in CallLengths(d) :
          LET h  == DumpHeader(0, 0, ToByte(d), samplerateToPeriod(44100), 0, 0, 0, 0)
              op == NewSendOp(Signal(d, n), h)
          IN  /\ wave = Signal(d, n)
              /\ bits = d
              /\ header = op.h
              /\ transfer = op.s
              /\ nanInt \in IF n = 0 THEN NaNInts ELSE {0}
    /\ tmsg = NilMsg
    /\ enc = << >>
    /\ dec = NilMsg
    /\ cs = 0
    /\ step = "new"
    /\ tnum = 0
    /\ tdec = 0
    /\ IdleFile
    /\ IdleProgram
    /\ IdlePack

\* msg := s.NextMessage()
CallNextMessage ==
    /\ \E nm \in {NextMessage(transfer)} :
            /\ transfer' = nm.s
            /\ tmsg' = nm.msg
    /\ step' = IF Done(transfer) THEN "calledDone" ELSE "called"
    /\ UNCHANGED << wave, bits, header, nanInt, enc, dec, cs, tnum, tdec,
                    fileVars, progVars, packVars >>

NextSession == CallNextMessage

SpecSession == InitSession /\ [][NextSession]_vars

(***************************************************************************)
(* One message through Encode and Decode (TestMessageEncoding), and a      *)
(* decoded data packet through ComputeChecksum (loadSDS).                  *)
(***************************************************************************)
\* Field values: the ends of each wire width, values inside it, and one value
\* beyond it.
ByteFields == {0, 1, 127, 200}
Numbers == {0, 2, 16383, 16389}
Wide == {0, 16384, 22676, 1048575, 1048579}
HeaderDepths == {7, 8, 16, 28, 29}
LoopTypes == {0, 1, 127}
ControlTypes == {Wait, Cancel, Nak, Ack}

\* Payloads: TestMessageEncoding's, all zero, all 0x7F, and a ramp.
Payloads ==
    { [i \in 1..DataLen |-> IF i <= 4 THEN i + 2 ELSE 0],
      ZeroData,
      [i \in 1..DataLen |-> 127],
      [i \in 1..DataLen |-> (i * 7) % 128] }

TestMessages ==
    { DumpHeader(ch, num, d, v, w, (v + w) % 1048576, 1048575 - (w % 1048576), lt) :
        ch \in {1, 200}, num \in Numbers, d \in HeaderDepths, v \in Wide, w \in Wide,
        lt \in LoopTypes }
    \cup { DumpRequest(ch, num) : ch \in ByteFields, num \in Numbers }
    \cup { DataPacket(ch, pn, data, c) :
             ch \in {1, 200}, pn \in ByteFields, data \in Payloads, c \in ByteFields }
    \cup { ControlPacket(t, ch, pn) :
             t \in ControlTypes, ch \in ByteFields, pn \in ByteFields }

\* Byte sequences handed to Decode as they come off the wire.  Every sequence
\* of up to MaxRawLen bytes over the bytes the framing tests look for ...
MaxRawLen == 4
FramingBytes == {1, 126, 240, 247}

ShortFrames == UNION { [1..n -> FramingBytes] : n \in 0..MaxRawLen }

\* ... frames 0xF0 0x7E ch id b ... b 0xF7 of every message id around the
\* known ones and every length around the four sizes, where the fill byte b
\* is also the header's bit depth and the data packet's checksum ...
FrameIds == {0, 1, 2, 3, 4, 123, 124, 125, 126, 127, 128}
FrameSizes ==
    UNION { {n - 1, n, n + 1} :
              n \in {controlPacketSize, dumpRequestSize, dumpHeaderSize, dataPacketSize} }
FillBytes == {0, 7, 8, 28, 29, 200}

Frame(id, n, b) ==
    [i \in 1..n |-> CASE i = n -> 247
                     [] i = 1 -> 240
                     [] i = 2 -> 126
                     [] i = 3 -> 5
                     [] i = 4 -> id
                     [] OTHER -> b]

SizedFrames == { Frame(id, n, b) : id \in FrameIds, n \in FrameSizes, b \in FillBytes }

\* ... and encoded data packets whose checksum byte (index 125) has been
\* overwritten.
ChecksumBytes == {0, 1, 85, 126, 127, 128, 255}

CorruptFrames ==
    { [Encode(DataPacket(5, pn, data, 0), << >>) EXCEPT ![126] = c] :
        pn \in {0, 127}, data \in Payloads, c \in ChecksumBytes }

RawFrames == ShortFrames \cup SizedFrames \cup CorruptFrames

\* Numbers for the 20-bit codec: Test20bit's table, the ends of every bit
\* position of the 20-bit range, and values spread over the range.
MaxNums == 120
Test20bitNums == {0, 1, 16383, 16384, 22676, 23999}
Nums20 ==
    Test20bitNums
    \cup { 2 ^ k : k \in 0..19 }
    \cup { (2 ^ k) - 1 : k \in 1..20 }
    \cup { (k * 8737) % (2 ^ 20) : k \in 0..MaxNums }

InitCodec ==
    /\ \/ /\ tmsg \in TestMessages
          /\ enc = << >>
          /\ step = "start"
          /\ tnum = 0
       \/ /\ tmsg = NilMsg
          /\ enc \in RawFrames
          /\ step = "raw"
          /\ tnum = 0
       \/ /\ tmsg = NilMsg
          /\ enc = << >>
          /\ step = "num"
          /\ tnum \in Nums20
    /\ tdec = 0
    /\ dec = NilMsg
    /\ cs = 0
    /\ IdleSession
    /\ IdleFile
    /\ IdleProgram
    /\ IdlePack

\* enc := msg.Encode(nil)
DoEncode ==
    /\ step = "start"
    /\ enc' = Encode(tmsg, << >>)
    /\ step' = "encoded"
    /\ UNCHANGED << tmsg, dec, cs, tnum, tdec, sessVars, fileVars, progVars, packVars >>

\* dec, err := Decode(enc)
DoDecode ==
    /\ step = "encoded"
    /\ dec' = Decode(enc)
    /\ step' = "decoded"
    /\ UNCHANGED << tmsg, enc, cs, tnum, tdec, sessVars, fileVars, progVars, packVars >>

\* cs := msg.ComputeChecksum() of a decoded *DataPacket
DoChecksum ==
    /\ step = "decoded"
    /\ dec.ok
    /\ dec.msg.kind = "DataPacket"
    /\ cs' = ComputeChecksum(dec.msg)
    /\ step' = "summed"
    /\ UNCHANGED << tmsg, enc, dec, tnum, tdec, sessVars, fileVars, progVars, packVars >>

\* msg, err := Decode(rawmsg) of a frame off the wire (receive, readMessage).
DecodeFrame ==
    /\ step = "raw"
    /\ dec' = Decode(enc)
    /\ step' = "rawDecoded"
    /\ UNCHANGED << tmsg, enc, cs, tnum, tdec, sessVars, fileVars, progVars, packVars >>

\* loadSDS on a decoded *DataPacket: cs := msg.ComputeChecksum(), to be
\* compared with msg.Checksum.
VerifyFrame ==
    /\ step = "rawDecoded"
    /\ dec.ok
    /\ dec.msg.kind = "DataPacket"
    /\ cs' = ComputeChecksum(dec.msg)
    /\ step' = "verified"
    /\ UNCHANGED << tmsg, enc, dec, tnum, tdec, sessVars, fileVars, progVars, packVars >>

\* e := append20bit(nil, test.num)
Enc20bit ==
    /\ step = "num"
    /\ enc' = append20bit(<< >>, tnum)
    /\ step' = "numEncoded"
    /\ UNCHANGED << tmsg, dec, cs, tnum, tdec, sessVars, fileVars, progVars, packVars >>

\* n := dec20bit(e[0], e[1], e[2])
Dec20bit ==
    /\ step = "numEncoded"
    /\ tdec' = dec20bit(enc[1], enc[2], enc[3])
    /\ step' = "numDecoded"
    /\ UNCHANGED << tmsg, enc, dec, cs, tnum, sessVars, fileVars, progVars, packVars >>

NextCodec ==
    DoEncode \/ DoDecode \/ DoChecksum \/ DecodeFrame \/ VerifyFrame
        \/ Enc20bit \/ Dec20bit

SpecCodec == InitCodec /\ [][NextCodec]_vars

(***************************************************************************)
(* The send program: doTransfer and transferData over the connection       *)
(* opened by cmdutil.Open.                                                 *)
(***************************************************************************)
\* Capacity of conn.PacketCh.
PacketChCap == 512

isSysex(m) == Len(m) > 0 /\ m[1] = 240 /\ m[Len(m)] = 247

\* The switch of doTransfer on what receive returned, with cfg.Channel = ch
\* and waiting = w: the value waiting is left with, and where control goes
\* ("loop": the next iteration, "transferData": transferData and return,
\* "fatal": log.Fatal).  This variant starts the data phase on an Ack with any
\* packet number.
doTransferSwitchAnyAck(m, ch, w) ==
    IF m = NilMsg
    THEN [waiting |-> w, to |-> IF ~w THEN "transferData" ELSE "loop"]
    ELSE IF m.kind = "ControlPacket"
    THEN IF m.Channel # ToByte(ch) THEN [waiting |-> w, to |-> "loop"]
         ELSE CASE m.Type = Ack -> [waiting |-> FALSE, to |-> "transferData"]
                [] m.Type \in {Nak, Cancel} -> [waiting |-> FALSE, to |-> "fatal"]
                [] m.Type = Wait -> [waiting |-> TRUE, to |-> "loop"]
                [] OTHER -> [waiting |-> FALSE, to |-> "loop"]
    ELSE [waiting |-> w, to |-> "loop"]

\* The switch of doTransfer without the fallback: a timeout always loops.
doTransferSwitchNoFallback(m, ch, w) ==
    IF m = NilMsg
    THEN [waiting |-> w, to |-> "loop"]
    ELSE IF m.kind = "ControlPacket"
    THEN IF m.Channel # ToByte(ch) THEN [waiting |-> w, to |-> "loop"]
         ELSE CASE m.Type = Ack ->
                      [waiting |-> FALSE,
                       to |-> IF m.PacketNumber # 0 THEN "loop" ELSE "transferData"]
                [] m.Type \in {Nak, Cancel} -> [waiting |-> FALSE, to |-> "fatal"]
                [] m.Type = Wait -> [waiting |-> TRUE, to |-> "loop"]
                [] OTHER -> [waiting |-> FALSE, to |-> "loop"]
    ELSE [waiting |-> w, to |-> "loop"]

\* The switch of doTransfer.
doTransferSwitch(m, ch, w) ==
    IF m = NilMsg
    THEN [waiting |-> w, to |-> IF ~w THEN "transferData" ELSE "loop"]
    ELSE IF m.kind = "ControlPacket"
    THEN IF m.Channel # ToByte(ch) THEN [waiting |-> w, to |-> "loop"]
         ELSE CASE m.Type = Ack ->
                      [waiting |-> FALSE,
                       to |-> IF m.PacketNumber # 0 THEN "loop" ELSE "transferData"]
                [] m.Type \in {Nak, Cancel} -> [waiting |-> FALSE, to |-> "fatal"]
                [] m.Type = Wait -> [waiting |-> TRUE, to |-> "loop"]
                [] OTHER -> [waiting |-> FALSE, to |-> "loop"]
    ELSE [waiting |-> w, to |-> "loop"]

\* The switch of transferData with a Nak taken as an Ack is.
transferDataSwitchNakConfirms(m, ch, w) ==
    IF m = NilMsg THEN [waiting |-> w, to |-> "progress"]
    ELSE IF m.kind = "ControlPacket"
    THEN IF m.Channel # ToByte(ch) THEN [waiting |-> w, to |-> "continue"]
         ELSE CASE m.Type \in {Ack, Nak} -> [waiting |-> FALSE, to |-> "progress"]
                [] m.Type = Cancel -> [waiting |-> FALSE, to |-> "fatal"]
                [] m.Type = Wait -> [waiting |-> TRUE, to |-> "progress"]
                [] OTHER -> [waiting |-> FALSE, to |-> "progress"]
    ELSE [waiting |-> w, to |-> "progress"]

\* The switch of transferData with "waiting = false" ahead of the channel test.
transferDataSwitchAnyChannel(m, ch, w) ==
    IF m = NilMsg THEN [waiting |-> w, to |-> "progress"]
    ELSE IF m.kind = "ControlPacket"
    THEN IF m.Channel # ToByte(ch) THEN [waiting |-> FALSE, to |-> "continue"]
         ELSE CASE m.Type = Ack -> [waiting |-> FALSE, to |-> "progress"]
                [] m.Type \in {Nak, Cancel} -> [waiting |-> FALSE, to |-> "fatal"]
                [] m.Type = Wait -> [waiting |-> TRUE, to |-> "progress"]
                [] OTHER -> [waiting |-> FALSE, to |-> "progress"]
    ELSE [waiting |-> w, to |-> "progress"]

\* The switch of transferData on what receive returned: the value waiting is
\* left with, and where control goes ("progress": on to the progress report,
\* "continue": straight to the next iteration, "fatal": log.Fatalf).
transferDataSwitch(m, ch, w) ==
    IF m = NilMsg THEN [waiting |-> w, to |-> "progress"]
    ELSE IF m.kind = "ControlPacket"
    THEN IF m.Channel # ToByte(ch) THEN [waiting |-> w, to |-> "continue"]
         ELSE CASE m.Type = Ack -> [waiting |-> FALSE, to |-> "progress"]
                [] m.Type \in {Nak, Cancel} -> [waiting |-> FALSE, to |-> "fatal"]
                [] m.Type = Wait -> [waiting |-> TRUE, to |-> "progress"]
                [] OTHER -> [waiting |-> FALSE, to |-> "progress"]
    ELSE [waiting |-> w, to |-> "progress"]

\* The progress report at the end of an iteration of transferData: the value
\* progress is left with.
reportProgress(p, prog) ==
    IF p - prog > 5 \/ (p = 100 /\ prog # 100) THEN p ELSE prog

(***************************************************************************)
(* Inputs of the send program.                                             *)
(***************************************************************************)
\* -ch and -slot.
Channels == {5}
SlotNumber == 1

SendDepths == {8, 16, 24}

\* Waveforms of no sample, of one sample, of one packet and one sample, and
\* of MaxSendPackets full packets.
MaxSendPackets == 2

SendLengths(d) == {0, 1, PacketCap(d) + 1, MaxSendPackets * PacketCap(d)}

\* The MIDI messages the input delivers while the program runs: at most
\* MaxMidiIn of them, each one of MidiMessages(ch).
MaxMidiIn == 2

OtherChannel(ch) == (ToByte(ch) + 1) % 128

MidiMessages(ch) ==
    { Encode(ControlPacket(Ack, ToByte(ch), 0), << >>),
      Encode(ControlPacket(Ack, ToByte(ch), 1), << >>),
      Encode(ControlPacket(Nak, ToByte(ch), 0), << >>),
      Encode(ControlPacket(Cancel, ToByte(ch), 0), << >>),
      Encode(ControlPacket(Wait, ToByte(ch), 0), << >>),
      Encode(ControlPacket(Wait, OtherChannel(ch), 0), << >>),
      Encode(DumpRequest(ToByte(ch), SlotNumber), << >>),
      << 240, 126, ToByte(ch), 85, 247 >>,
      << 144, 60, 100 >> }

(***************************************************************************)
(* The send program as a state machine.                                    *)
(***************************************************************************)
\* main up to the call of send in doTransfer: the connection is open, the
\* header is built and the session is created.
Init ==
    /\ \E ch \in Channels : \E d \in SendDepths : \E n \in SendLengths(d) :
          LET h  == DumpHeader(ToByte(ch), SlotNumber % 65536, ToByte(d),
                               samplerateToPeriod(44100), 0, 0, 0, 0)
              op == NewSendOp(Signal(d, n), h)
          IN  /\ cfg = [Channel |-> ch, WaveformNumber |-> SlotNumber]
              /\ wave = Signal(d, n)
              /\ bits = d
              /\ header = op.h
              /\ transfer = op.s
    /\ nanInt = 0
    /\ pc = "start"
    /\ waiting = FALSE
    /\ progress = 0
    /\ msg = NilMsg
    /\ dropped = << >>
    /\ PacketCh = << >>
    /\ sent = << >>
    /\ midiIn = 0
    /\ waitSeen = FALSE
    /\ IdleFile
    /\ IdleCodec
    /\ IdlePack

\* The listener making room in a full queue by dropping its oldest frame.
ListenerDropsOldest(m) ==
    /\ pc \notin {"done", "fatal"}
    /\ midiIn' = midiIn + 1
    /\ PacketCh' = IF ~isSysex(m) THEN PacketCh
                   ELSE IF Len(PacketCh) < PacketChCap THEN Append(PacketCh, m)
                   ELSE Append(Tail(PacketCh), m)
    /\ UNCHANGED << sessVars, fileVars, codecVars, packVars,
                    cfg, pc, waiting, progress, msg, dropped, sent, waitSeen >>

\* The listener set by cmdutil.Open, called with one MIDI message.
Listener(m) ==
    /\ pc \notin {"done", "fatal"}
    /\ midiIn' = midiIn + 1
    /\ PacketCh' = IF isSysex(m) /\ Len(PacketCh) < PacketChCap
                   THEN Append(PacketCh, m)
                   ELSE PacketCh
    /\ UNCHANGED << sessVars, fileVars, codecVars, packVars,
                    cfg, pc, waiting, progress, msg, dropped, sent, waitSeen >>

\* send(conn, header); waiting := false
SendHeader ==
    /\ pc = "start"
    /\ sent' = Append(sent, Encode(header, << >>))
    /\ waiting' = FALSE
    /\ pc' = "handshake"
    /\ UNCHANGED << sessVars, fileVars, codecVars, packVars,
                    cfg, progress, msg, dropped, PacketCh, midiIn, waitSeen >>

\* receive ending the program on a frame that Decode rejects.
ReceiveDiscardFatal ==
    /\ pc \in {"handshake", "dataRecv"}
    /\ PacketCh # << >>
    /\ ~Decode(Head(PacketCh)).ok
    /\ dropped' = Head(PacketCh)
    /\ PacketCh' = Tail(PacketCh)
    /\ pc' = "fatal"
    /\ UNCHANGED << sessVars, fileVars, codecVars, packVars,
                    cfg, waiting, progress, msg, sent, midiIn, waitSeen >>

\* receive: a frame that Decode rejects is logged and dropped, and receive
\* goes on with the same timer.
ReceiveDiscard ==
    /\ pc \in {"handshake", "dataRecv"}
    /\ PacketCh # << >>
    /\ ~Decode(Head(PacketCh)).ok
    /\ dropped' = Head(PacketCh)
    /\ PacketCh' = Tail(PacketCh)
    /\ UNCHANGED << sessVars, fileVars, codecVars, packVars,
                    cfg, pc, waiting, progress, msg, sent, midiIn, waitSeen >>

\* One iteration of the loop of doTransfer, receive having returned m.  On the
\* way into transferData its locals progress and waiting start at zero.
Handshake(m) ==
    LET sw == doTransferSwitch(m, cfg.Channel, waiting)
    IN  /\ msg' = m
        /\ dropped' = << >>
        /\ pc' = CASE sw.to = "transferData" -> "data"
                   [] sw.to = "fatal" -> "fatal"
                   [] OTHER -> "handshake"
        /\ waiting' = IF sw.to = "transferData" THEN FALSE ELSE sw.waiting
        /\ progress' = 0
        /\ waitSeen' = (waitSeen \/ (sw.to = "loop" /\ sw.waiting /\ m # NilMsg
                                       /\ m.kind = "ControlPacket"
                                       /\ m.Channel = ToByte(cfg.Channel)))
        /\ UNCHANGED << sessVars, fileVars, codecVars, packVars, cfg, sent, midiIn >>

\* receive(conn, handshakeTimeout) returns nil: the timer fired.
HandshakeTimeout ==
    /\ pc = "handshake"
    /\ Handshake(NilMsg)
    /\ UNCHANGED PacketCh

\* receive(conn, handshakeTimeout) returns the message decoded from the next frame.
HandshakeReceive ==
    /\ pc = "handshake"
    /\ PacketCh # << >>
    /\ Decode(Head(PacketCh)).ok
    /\ PacketCh' = Tail(PacketCh)
    /\ Handshake(Decode(Head(PacketCh)).msg)

\* transferData: the loop condition holds; the next packet is sent unless
\* waiting, and receive is entered.
DataSend ==
    /\ pc = "data"
    /\ ~Done(transfer)
    /\ IF ~waiting
       THEN \E nm \in {NextMessage(transfer)} :
                /\ transfer' = nm.s
                /\ sent' = Append(sent, Encode(nm.msg, << >>))
       ELSE UNCHANGED << transfer, sent >>
    /\ pc' = "dataRecv"
    /\ UNCHANGED << wave, bits, header, nanInt, fileVars, codecVars, packVars,
                    cfg, waiting, progress, msg, dropped, PacketCh, midiIn, waitSeen >>

\* transferData: the loop condition fails; transferData and doTransfer return.
TransferReturn ==
    /\ pc = "data"
    /\ Done(transfer)
    /\ pc' = "done"
    /\ UNCHANGED << sessVars, fileVars, codecVars, packVars,
                    cfg, waiting, progress, msg, dropped, PacketCh, sent, midiIn,
                    waitSeen >>

\* The rest of an iteration of transferData, receive having returned m.
DataResponse(m) ==
    LET sw == transferDataSwitch(m, cfg.Channel, waiting)
    IN  /\ msg' = m
        /\ dropped' = << >>
        /\ waiting' = sw.waiting
        /\ pc' = IF sw.to = "fatal" THEN "fatal" ELSE "data"
        /\ progress' = IF sw.to = "progress"
                       THEN reportProgress(Progress(transfer), progress)
                       ELSE progress
        /\ UNCHANGED << sessVars, fileVars, codecVars, packVars, cfg, sent, midiIn, waitSeen >>

\* receive(conn, dataResponseTimeout) returns nil: the timer fired.
DataTimeout ==
    /\ pc = "dataRecv"
    /\ DataResponse(NilMsg)
    /\ UNCHANGED PacketCh

\* receive(conn, dataResponseTimeout) returns the message decoded from the next frame.
DataReceive ==
    /\ pc = "dataRecv"
    /\ PacketCh # << >>
    /\ Decode(Head(PacketCh)).ok
    /\ PacketCh' = Tail(PacketCh)
    /\ DataResponse(Decode(Head(PacketCh)).msg)

Next ==
    \/ \E m \in MidiMessages(cfg.Channel) : midiIn < MaxMidiIn /\ Listener(m)
    \/ SendHeader
    \/ ReceiveDiscard
    \/ HandshakeTimeout
    \/ HandshakeReceive
    \/ DataSend
    \/ TransferReturn
    \/ DataTimeout
    \/ DataReceive

Spec == Init /\ [][Next]_vars

\* The program runs: it takes its own steps, never resting at the top of the
\* loop of transferData, where DataSend or TransferReturn is enabled; and a
\* call of receive returns, with a frame from the queue or, when its timer
\* fires, with nil.
ReceiveReturns ==
    \/ ReceiveDiscard
    \/ HandshakeTimeout
    \/ HandshakeReceive
    \/ DataTimeout
    \/ DataReceive

FairSpec ==
    /\ Spec
    /\ WF_vars(SendHeader)
    /\ WF_vars(ReceiveReturns)
    /\ WF_vars(TransferReturn)
    /\ []<>(pc # "data")

(***************************************************************************)
(* One packet through SetSamples twice (TestSetSamplesLengths).            *)
(***************************************************************************)
\* What msg.Data holds before the first call (mrand.Read).
DirtyPayloads == Payloads \cup { [i \in 1..DataLen |-> 255] }

\* samples2 of TestSetSamplesLengths: RampLen samples i - 127.
RampLen == 90
Ramp == [i \in 1..RampLen |-> (i - 1) - 127]

\* Sample slices: none, samples1 of TestSetSamplesLengths, one sample less
\* than a packet, a packet, one sample more, and samples2.
PackInputs(d) ==
    { << >>, << -127, -126, -125 >>, Ramp }
    \cup { Signal(d, PacketCap(d) + e) : e \in {-1, 0, 1} }

InitPack ==
    /\ pkt \in { DataPacket(0, 0, data, 0) : data \in DirtyPayloads }
    /\ bits \in Depths
    /\ wave = << >>
    /\ rem = << >>
    /\ header = NilMsg
    /\ transfer = NilMsg
    /\ nanInt = 0
    /\ tmsg = NilMsg
    /\ enc = << >>
    /\ dec = NilMsg
    /\ cs = 0
    /\ step = "fresh"
    /\ tnum = 0
    /\ tdec = 0
    /\ IdleFile
    /\ IdleProgram

\* rem := msg.SetSamples(samples, bitDepth)
CallSetSamples(samples) ==
    \E w \in {SetSamples(pkt, samples, bits)} :
        /\ pkt' = w.msg
        /\ rem' = w.rest
        /\ wave' = samples
        /\ UNCHANGED << bits, header, transfer, nanInt, fileVars, progVars,
                        tmsg, enc, dec, cs, tnum, tdec >>

\* The first call, on the payload as it was found.
SetSamplesFirst ==
    /\ step = "fresh"
    /\ step' = "once"
    /\ \E samples \in PackInputs(bits) : CallSetSamples(samples)

\* The second call, on the payload the first call left.
SetSamplesAgain ==
    /\ step = "once"
    /\ step' = "twice"
    /\ \E samples \in PackInputs(bits) : CallSetSamples(samples)

NextPack == SetSamplesFirst \/ SetSamplesAgain

SpecPack == InitPack /\ [][NextPack]_vars

(***************************************************************************)
(* The send program with a silent receiver, on inputs of any kind: -ch and *)
(* -slot beyond a byte and 14 bits, sample rates whose period is beyond 20 *)
(* bits, bit depths SetSamples does not support, and samples beyond the    *)
(* bit depth.  With a depth outside 8..28 the first NextMessage panics in  *)
(* SetSamples, after the header has been sent.                             *)
(***************************************************************************)
WireChannels == {5, 200, -1}
WireSlots == {1, 70000}
WireRates == {44100, 1}
WireDepths == {7, 8, 14, 15, 21, 22, 28, 29, 200}
WireLengths(d) == {0, 1, PacketCap(d) + 1}

\* Sample i (0-based) of a buffer whose samples do not fit the bit depth.
WildAt(i) ==
    CASE i % 8 = 0 -> 2 ^ 30
      [] i % 8 = 1 -> -(2 ^ 30)
      [] i % 8 = 2 -> 123456789
      [] i % 8 = 3 -> -1
      [] i % 8 = 4 -> 268435456 + (i * 977)
      [] i % 8 = 5 -> -268435457 - (i * 131)
      [] i % 8 = 6 -> 255
      [] i % 8 = 7 -> -987654321

WildSignal(n) == [i \in 1..n |-> WildAt(i - 1)]

InitWire ==
    /\ \E ch \in WireChannels : \E sl \in WireSlots : \E rate \in WireRates :
       \E d \in WireDepths : \E n \in WireLengths(d) :
          LET h  == DumpHeader(ToByte(ch), sl % 65536, ToByte(d),
                               samplerateToPeriod(rate), 0, 0, 0, 0)
              op == NewSendOp(WildSignal(n), h)
          IN  /\ cfg = [Channel |-> ch, WaveformNumber |-> sl]
              /\ wave = WildSignal(n)
              /\ bits = d
              /\ header = op.h
              /\ transfer = op.s
    /\ nanInt = 0
    /\ pc = "start"
    /\ waiting = FALSE
    /\ progress = 0
    /\ msg = NilMsg
    /\ dropped = << >>
    /\ PacketCh = << >>
    /\ sent = << >>
    /\ midiIn = 0
    /\ waitSeen = FALSE
    /\ IdleFile
    /\ IdleCodec
    /\ IdlePack

\* transferData: NextMessage panics in SetSamples; nothing is sent.
DataPanic ==
    /\ pc = "data"
    /\ ~Done(transfer)
    /\ ~waiting
    /\ SetSamples(transfer.data, transfer.samples, transfer.bitDepth) = Panic
    /\ pc' = "panic"
    /\ UNCHANGED << sessVars, fileVars, codecVars, packVars,
                    cfg, waiting, progress, msg, dropped, PacketCh, sent, midiIn,
                    waitSeen >>

NextWire ==
    \/ SendHeader
    \/ HandshakeTimeout
    \/ (transfer.bitDepth \in 8..28 /\ DataSend)
    \/ DataPanic
    \/ DataTimeout
    \/ TransferReturn

SpecWire == InitWire /\ [][NextWire]_vars

(***************************************************************************)
(* The send program under a long stream of inbound MIDI messages, enough   *)
(* to fill conn.PacketCh.                                                  *)
(***************************************************************************)
\* The stream: MaxArrivals messages, the k-th carrying k.  Half of them are
\* not sysex messages (a note-on, a message that only starts with 0xF0, one
\* that only ends with 0xF7, an empty one); of the others the fourth is a
\* Cancel on the transfer's channel, one in four is a frame Decode rejects,
\* and the rest are dump requests.
MaxArrivals == 1030

Arrival(k) ==
    IF k = 4 THEN Encode(ControlPacket(Cancel, 5, k), << >>)
    ELSE CASE k % 8 = 2 -> << 144, k % 128, 100 >>
           [] k % 8 = 5 -> << 240, 126, k % 128 >>
           [] k % 8 = 6 -> << k % 128, 126, 247 >>
           [] k % 8 = 7 -> << >>
           [] k % 8 = 3 -> << 240, 126, 5, 85, k % 128, k \div 128, 247 >>
           [] OTHER -> Encode(DumpRequest(5, k), << >>)

\* doTransfer about to send the header of a waveform of one 8-bit sample on
\* channel 5.
InitQueue ==
    /\ LET h  == DumpHeader(5, SlotNumber, 8, samplerateToPeriod(44100), 0, 0, 0, 0)
           op == NewSendOp(Signal(8, 1), h)
       IN  /\ cfg = [Channel |-> 5, WaveformNumber |-> SlotNumber]
           /\ wave = Signal(8, 1)
           /\ bits = 8
           /\ header = op.h
           /\ transfer = op.s
    /\ nanInt = 0
    /\ pc = "start"
    /\ waiting = FALSE
    /\ progress = 0
    /\ msg = NilMsg
    /\ dropped = << >>
    /\ PacketCh = << >>
    /\ sent = << >>
    /\ midiIn = 0
    /\ waitSeen = FALSE
    /\ IdleFile
    /\ IdleCodec
    /\ IdlePack

NextQueue ==
    \/ midiIn < MaxArrivals /\ Listener(Arrival(midiIn + 1))
    \/ SendHeader
    \/ ReceiveDiscard
    \/ HandshakeTimeout
    \/ HandshakeReceive
    \/ DataSend
    \/ TransferReturn
    \/ DataTimeout
    \/ DataReceive

SpecQueue == InitQueue /\ [][NextQueue]_vars

(***************************************************************************)
(* Properties of the codec and of the session.                             *)
(***************************************************************************)
\* The XOR of bytes lo .. hi (0-based, inclusive) of buf.
RECURSIVE XorFold(_, _, _)
XorFold(buf, lo, hi) ==
    IF lo > hi THEN 0
    ELSE IF lo = hi THEN At(buf, lo)
    ELSE LET mid == (lo + hi) \div 2
         IN  Xor(XorFold(buf, lo, mid), XorFold(buf, mid + 1, hi))

\* Checksum fields the independence of ComputeChecksum is tried on.
ChecksumProbes == {0, 85, 127}

\* C6 as stated: ComputeChecksum of a data packet is the XOR of its encoded
\* bytes 0 (the leading 0xF0) through 124 (the last payload byte), masked to
\* 7 bits.
C6_ChecksumFromF0 ==
    step = "summed" => cs = And7F(XorFold(enc, 0, 124))

\* C6 amended: ComputeChecksum of a data packet is the XOR of its encoded bytes
\* 1 (0x7E) through 124 (the last payload byte), masked to 7 bits: the leading
\* 0xF0 is not part of it, nor are the checksum byte and the trailing 0xF7;
\* and it does not depend on the packet's Checksum field.
C6_ChecksumFrom7E ==
    step = "summed" =>
        /\ cs = And7F(XorFold(enc, 1, 124))
        /\ \A c \in ChecksumProbes :
              ComputeChecksum([dec.msg EXCEPT !.Checksum = c]) = cs

\* The checksum of a packet with a non-zero payload, packet number and Checksum
\* field has been computed.
C6_Witness ==
    /\ step = "summed"
    /\ dec.msg.PacketNumber = 127
    /\ dec.msg.Checksum = 1
    /\ dec.msg.Data[1] = 3
    /\ cs # dec.msg.Checksum

\* C7 as stated, for a non-empty buffer: Progress() is 100 only when Done().
C7_HundredOnlyWhenDone ==
    transfer.length > 0 => (Progress(transfer) = 100 => Done(transfer))

\* C8: the k-th call of NextMessage (k = 0, 1, ...) on a session that is not
\* Done returns a packet whose packet number is k mod 128, which is also the
\* packet number byte of its encoding.
C8_PacketNumberIsCallModulo128 ==
    Len(output) >= 2 =>
        LET k == Len(output) - 2
        IN  /\ transfer.data.PacketNumber = k % 128
            /\ At(output[k + 2], 4) = k % 128

\* 200 calls have been made: the last packet number is 71, after a wrap from 127 to 0.
C8_Witness ==
    /\ Len(output) - 1 = 200
    /\ transfer.data.PacketNumber = 71
    /\ At(output[129], 4) = 127
    /\ At(output[130], 4) = 0

\* C9: the samples packed packet by packet and decoded with GetSamples at the
\* header's depth are, truncated to the original count, the original samples.
C9_PackingRoundTrip ==
    phase = "loaded" =>
        /\ r.err = "nil"
        /\ Len(r.samples) >= header.Length
        /\ SubSeq(r.samples, 1, header.Length) = wave

\* A buffer one sample longer than a packet has been read back, and so has a
\* buffer shorter than a packet (witnessed at 28 bits; every depth is run).
C9_Witness ==
    /\ phase = "loaded"
    /\ bits = 28
    /\ Len(wave) = PacketCap(bits) + 1
    /\ Len(r.samples) = 2 * PacketCap(bits)
    /\ r.samples[1] = -(2 ^ 27)
    /\ r.samples[2] = 2 ^ 27 - 1

\* The fields of m are within their wire widths.
InWidth(m) ==
    CASE m.kind = "DumpHeader" ->
            /\ m.Channel <= 127
            /\ m.Number < 2 ^ 14
            /\ m.BitDepth \in 8..28
            /\ m.Period < 2 ^ 20
            /\ m.Length < 2 ^ 20
            /\ m.LoopStart < 2 ^ 20
            /\ m.LoopEnd < 2 ^ 20
            /\ m.LoopType <= 127
      [] m.kind = "DumpRequest" -> m.Channel <= 127 /\ m.Number < 2 ^ 14
      [] m.kind = "DataPacket" ->
            /\ m.Channel <= 127
            /\ m.PacketNumber <= 127
            /\ m.Checksum <= 127
            /\ \A i \in 1..DataLen : m.Data[i] <= 127
      [] m.kind = "ControlPacket" ->
            /\ m.Type \in 124..127
            /\ m.Channel <= 127
            /\ m.PacketNumber <= 127

\* C10: Decode(Encode(m)) returns m, without error, for a message of any of
\* the four variants whose fields are within their wire widths.
C10_DecodeEncodeRoundTrip ==
    (step \in {"decoded", "summed"} /\ InWidth(tmsg)) =>
        (dec.ok /\ dec.msg = tmsg)

\* A header with the largest 14-bit number and 20-bit period has made the round trip.
C10_Witness ==
    /\ step = "decoded"
    /\ tmsg.kind = "DumpHeader"
    /\ InWidth(tmsg)
    /\ tmsg.Number = 16383
    /\ tmsg.Period = 1048575
    /\ tmsg.Length = 22676
    /\ dec.ok
    /\ dec.msg = tmsg

(***************************************************************************)
(* Properties of the send program.                                         *)
(***************************************************************************)
\* m is a control packet of type t on the transfer's channel.
OnChannel(m, t) ==
    /\ m.kind = "ControlPacket"
    /\ m.Channel = ToByte(cfg.Channel)
    /\ m.Type = t

\* m is a control packet on another channel.
OffChannel(m) == m.kind = "ControlPacket" /\ m.Channel # ToByte(cfg.Channel)

\* The step is one in which receive returns a message: msg' is that message.
Received ==
    /\ PacketCh # << >>
    /\ PacketCh' = Tail(PacketCh)
    /\ Decode(Head(PacketCh)).ok
    /\ msg' = Decode(Head(PacketCh)).msg

\* The step is one in which receive returns nil.
TimedOut == PacketCh' = PacketCh /\ midiIn' = midiIn /\ msg' = NilMsg

C2_WaitHoldsData ==
    [][ (pc \in {"data", "dataRecv"}) =>
          /\ (Received /\ OnChannel(msg', Wait)) => waiting'
          /\ waiting => sent' = sent
          /\ (waiting /\ ~(Received /\ ~OffChannel(msg') /\ msg'.kind = "ControlPacket"))
                => waiting'
          /\ (waiting /\ Received /\ OnChannel(msg', Ack))
                => (~waiting' /\ pc' = "data")
          /\ (waiting /\ Received /\ (OnChannel(msg', Nak) \/ OnChannel(msg', Cancel)))
                => pc' = "fatal"
      ]_vars

\* After the first data packet a Wait was received, receive then timed out,
\* and the loop has come round to receive again without sending.
C2_Witness ==
    /\ pc = "dataRecv"
    /\ waiting
    /\ msg = NilMsg
    /\ Len(sent) = 2
    /\ ~Done(transfer)

\* C3 as stated: once doTransfer has received a Wait on the transfer's
\* channel, it enters the data phase only on receiving an Ack with packet
\* number 0 on that channel.
C3_WaitSuppressesFallback ==
    [][ (waitSeen /\ pc = "handshake" /\ pc' = "data")
          => (Received /\ OnChannel(msg', Ack) /\ msg'.PacketNumber = 0)
      ]_vars

\* C4: the first message sent is the header; messages after it are sent from
\* transferData only; doTransfer enters transferData only on a timeout while
\* not waiting or on an Ack with packet number 0 on the transfer's channel;
\* and a control packet on another channel leaves doTransfer in its loop
\* with waiting as it was.
C4_DataPhaseStart ==
    [][ /\ (sent = << >> /\ sent' # sent) => sent' = << Encode(header, << >>) >>
        /\ (sent # << >> /\ sent' # sent) => (pc = "data" /\ pc' = "dataRecv")
        /\ pc' \in {"data", "dataRecv"} => pc \in {"handshake", "data", "dataRecv"}
        /\ (pc = "handshake" /\ pc' = "data") =>
              \/ TimedOut /\ ~waiting
              \/ Received /\ OnChannel(msg', Ack) /\ msg'.PacketNumber = 0
        /\ (pc = "handshake" /\ Received /\ OffChannel(msg')) =>
              (pc' = "handshake" /\ waiting' = waiting)
      ]_vars

\* The first data packet has been sent after an Ack with packet number 0
\* started the data phase.
C4_Witness ==
    /\ pc = "dataRecv"
    /\ Len(sent) = 2
    /\ OnChannel(msg, Ack)
    /\ msg.PacketNumber = 0

\* Samples per packet as C5 gives them.
ClaimedCap(d) == IF d <= 14 THEN 60 ELSE IF d <= 21 THEN 40 ELSE 30

\* The frames encodeSDS's loop appends for session s: what the session sends
\* when nothing is received.
RECURSIVE FramesOf(_)
FramesOf(s) ==
    IF Done(s) THEN << >>
    ELSE LET nm == CHOOSE x \in {NextMessage(s)} : TRUE
         IN  << Encode(nm.msg, << >>) >> \o FramesOf(nm.s)

\* C5: when a transfer of N > 0 samples has returned without abort, the
\* frames sent are the header and then exactly ceil(N / cap) data packets,
\* the k-th numbered k mod 128 and carrying the samples k*cap up to
\* min(N, (k+1)*cap); they are the frames sent when nothing is received.
C5_EveryPacketOnceInOrder ==
    (pc = "done" /\ Len(wave) > 0) =>
        LET N == Len(wave)
            c == ClaimedCap(bits)
            K == (N + c - 1) \div c
        IN  /\ Len(sent) = 1 + K
            /\ \A k \in 0..(K - 1) :
                  LET d  == Decode(sent[k + 2])
                      hi == Min(N, (k + 1) * c)
                  IN  /\ d.ok
                      /\ d.msg.kind = "DataPacket"
                      /\ d.msg.PacketNumber = k % 128
                      /\ SubSeq(GetSamples(d.msg, << >>, bits), 1, hi - k * c)
                            = SubSeq(wave, k * c + 1, hi)
            /\ sent = << Encode(header, << >>) >>
                        \o FramesOf(NewSendOp(wave, header).s)

\* A transfer of one packet and one sample has returned, having been held by
\* a Wait in the header phase and having received a second message.
C5_Witness ==
    /\ pc = "done"
    /\ bits = 16
    /\ Len(wave) = 41
    /\ Len(sent) = 3
    /\ waitSeen
    /\ midiIn = 2
    /\ PacketCh = << >>

(***************************************************************************)
(* Properties of Decode on frames off the wire.                            *)
(***************************************************************************)
\* The frame size of the variant selected by message id.
SizeOf(id) ==
    CASE id = 1 -> 21
      [] id = 2 -> 127
      [] id = 3 -> 7
      [] OTHER -> 6

\* The outcome C11 gives for frame f: the error, or "nil" for success.
Classified(f) ==
    IF Len(f) < 2 \/ f[1] # 240 \/ f[2] # 126 \/ f[Len(f)] # 247
        THEN "not a sysex message"
    ELSE IF Len(f) < 4 THEN "message too short"
    ELSE IF f[4] \notin {1, 2, 3, 124, 125, 126, 127} THEN "invalid message id"
    ELSE IF Len(f) # SizeOf(f[4]) THEN "bad size"
    ELSE IF f[4] = 1 /\ f[7] \notin 8..28 THEN "unsupported bit depth"
    ELSE "nil"

\* The variant a message id selects.
KindOf(id) ==
    CASE id = 1 -> "DumpHeader"
      [] id = 2 -> "DataPacket"
      [] id = 3 -> "DumpRequest"
      [] OTHER -> "ControlPacket"

\* C11: Decode returns a result for every byte sequence, the empty one
\* included: the error C11's order of tests gives, or else a message of the
\* variant the byte at index 3 selects.
C11_DecodeClassifies ==
    step = "rawDecoded" =>
        IF Classified(enc) = "nil"
        THEN dec.ok /\ dec.msg.kind = KindOf(enc[4])
        ELSE ~dec.ok /\ dec.err = Classified(enc)

\* The empty sequence has been decoded: not a sysex message.
C11_Witness ==
    /\ step = "rawDecoded"
    /\ enc = << >>
    /\ ~dec.ok
    /\ dec.err = "not a sysex message"

\* enc is a data packet frame but for its checksum byte.
DataFrame ==
    /\ Len(enc) = dataPacketSize
    /\ HasPrefix(enc)
    /\ enc[4] = 2
    /\ enc[dataPacketSize] = 247

\* C17: Decode of a 127-byte data packet frame succeeds whatever its checksum
\* byte: the decoded packet is the one decoded from the frame with a zero
\* checksum byte, but for its Checksum field, which is the byte; and
\* ComputeChecksum of the decoded packet is the checksum of the frame's
\* other bytes, so that the two differ when the byte is not that checksum.
C17_DecodeIgnoresChecksum ==
    (step \in {"rawDecoded", "verified"} /\ DataFrame) =>
        /\ dec.ok
        /\ dec.msg.Checksum = enc[126]
        /\ dec.msg = [Decode([enc EXCEPT ![126] = 0]).msg EXCEPT !.Checksum = enc[126]]
        /\ step = "verified" =>
              /\ cs = And7F(XorFold(enc, 1, 124))
              /\ (cs # dec.msg.Checksum) = (enc[126] # And7F(XorFold(enc, 1, 124)))

\* A frame with checksum byte 0xFF has been decoded, and the comparison with
\* ComputeChecksum fails.
C17_Witness ==
    /\ step = "verified"
    /\ DataFrame
    /\ enc[126] = 255
    /\ dec.ok
    /\ dec.msg.Checksum = 255
    /\ cs # dec.msg.Checksum

(***************************************************************************)
(* Properties of SetSamples on one packet.                                 *)
(***************************************************************************)
\* The payload TestSetSamplesLengths expects of samples2 at 8 bits.
WantData == [i \in 1..DataLen |-> IF i % 2 = 1 THEN (i + 1) \div 4
                                  ELSE IF (i \div 2) % 2 = 1 THEN 64 ELSE 0]

\* C12: SetSamples at depth d leaves the first min(len(samples), cap) samples
\* in the payload from offset 0 (GetSamples reads them back), every payload
\* byte after their groups zero, and returns the samples after them;
\* [-127,-126,-125] at 8 bits gives 0,64,1,0,1,64 and zeros, and the 90
\* samples i-127 at 8 bits leave 30 and give the payload of the test.
C12_SetSamplesFillsAndZeroes ==
    step \in {"once", "twice"} =>
        LET c == ClaimedCap(bits)
            g == DataLen \div c
            n == Min(Len(wave), c)
        IN  /\ rem = SubSeq(wave, n + 1, Len(wave))
            /\ SubSeq(GetSamples(pkt, << >>, bits), 1, n) = SubSeq(wave, 1, n)
            /\ \A i \in (g * n + 1)..DataLen : pkt.Data[i] = 0
            /\ \A i \in 1..DataLen : pkt.Data[i] \in 0..127
            /\ (bits = 8 /\ wave = << -127, -126, -125 >>) =>
                  pkt.Data = [i \in 1..DataLen |->
                                IF i <= 6 THEN << 0, 64, 1, 0, 1, 64 >>[i] ELSE 0]
            /\ (bits = 8 /\ wave = Ramp) => (Len(rem) = 30 /\ pkt.Data = WantData)

\* The second call has set three samples at 8 bits: their six bytes, and
\* zero after them.
C12_Witness ==
    /\ step = "twice"
    /\ bits = 8
    /\ wave = << -127, -126, -125 >>
    /\ rem = << >>
    /\ pkt.Data[6] = 64
    /\ pkt.Data[7] = 0

(***************************************************************************)
(* Properties of receive and of the listener.                              *)
(***************************************************************************)
\* C13: in either phase, the step that takes a frame Decode rejects off the
\* queue leaves the program in the same receive call, sends nothing, and
\* leaves waiting, the session, the progress and the last message as they
\* were.
C13_BadFrameHasNoEffect ==
    [][ (/\ pc \in {"handshake", "dataRecv"}
         /\ PacketCh # << >>
         /\ PacketCh' = Tail(PacketCh)
         /\ ~Decode(Head(PacketCh)).ok)
        => (/\ pc' = pc
            /\ sent' = sent
            /\ waiting' = waiting
            /\ transfer' = transfer
            /\ progress' = progress
            /\ msg' = msg
            /\ waitSeen' = waitSeen)
      ]_vars

\* In the data phase, held by a Wait after the first packet, receive has
\* dropped a malformed frame and is still waiting for the next one.
C13_Witness ==
    /\ pc = "dataRecv"
    /\ waiting
    /\ dropped # << >>
    /\ ~Decode(dropped).ok
    /\ Len(sent) = 2
    /\ ~Done(transfer)

\* m starts with 0xF0 and ends with 0xF7.
Framed(m) == m # << >> /\ Head(m) = 240 /\ m[Len(m)] = 247

\* C14: the queue never holds more than 512 frames.  The listener returns
\* whatever the queue holds: it appends a message that starts with 0xF0 and
\* ends with 0xF7 when fewer than 512 frames are queued, and otherwise
\* (queue full, or message not so framed) leaves the queue as it is.  Every
\* other change of the queue is receive taking its oldest frame, which it
\* decodes and returns, or drops.
C14_QueueDropsWhenFull ==
    [][ /\ Len(PacketCh') <= 512
        /\ midiIn' # midiIn =>
              PacketCh' = IF Framed(Arrival(midiIn')) /\ Len(PacketCh) < 512
                          THEN Append(PacketCh, Arrival(midiIn'))
                          ELSE PacketCh
        /\ (midiIn' = midiIn /\ PacketCh' # PacketCh) =>
              /\ pc \in {"handshake", "dataRecv"}
              /\ PacketCh' = Tail(PacketCh)
              /\ IF Decode(Head(PacketCh)).ok
                 THEN msg' = Decode(Head(PacketCh)).msg
                 ELSE dropped' = Head(PacketCh) /\ pc' = pc
      ]_vars

\* The queue is full, and the framed message that arrived last is not in it.
C14_Witness ==
    /\ Len(PacketCh) = 512
    /\ Framed(Arrival(midiIn))
    /\ PacketCh[512] # Arrival(midiIn)

(***************************************************************************)
(* Properties of the progress report and of termination.                   *)
(***************************************************************************)
\* C15 as stated: at the end of an iteration of transferData a progress that
\* is 5 points or more above the value reported last is reported; reported
\* values only grow; and a transfer of a non-empty buffer that returns has
\* reported 100.
C15_ProgressReported ==
    [][ /\ (pc = "dataRecv" /\ pc' = "data" /\ Progress(transfer) - progress >= 5)
           => progress' = Progress(transfer)
        /\ progress' # progress => progress' > progress
        /\ (pc' = "done" /\ Len(wave) > 0) => progress' = 100
      ]_vars

\* C16: if no Wait on the transfer's channel is ever received, the program
\* ends, returned or fatal; and an iteration of transferData that is not
\* waiting sends exactly one packet, the packets sent never exceeding
\* ceil(N / cap).
C16_EndsUnlessHeldByWait ==
    /\ ([]~OnChannel(msg, Wait)) => <>(pc \in {"done", "fatal"})
    /\ [][ /\ (pc = "data" /\ pc' = "dataRecv" /\ ~waiting)
               => (Len(sent') = Len(sent) + 1 /\ Len(transfer'.samples) < Len(transfer.samples))
            /\ Len(sent') - 1 <= (Len(wave) + ClaimedCap(bits) - 1) \div ClaimedCap(bits)
          ]_vars

\* A transfer of two packets has returned without any Wait, after two
\* inbound messages.
C16_Witness ==
    /\ pc = "done"
    /\ ~waitSeen
    /\ ~waiting
    /\ midiIn = 2
    /\ Len(sent) = 3

(***************************************************************************)
(* Properties of the 20-bit codec.                                         *)
(***************************************************************************)
\* C18: the 20-bit encoding of n in 0..2^20-1 is the triple
\* [n mod 128, (n div 128) mod 128, (n div 16384) mod 64], and decoding the
\* triple returns n; 0x4000 encodes to [0,0,1] and 0x5894 to [0x14,0x31,0x01].
C18_TwentyBitRoundTrip ==
    /\ (step \in {"numEncoded", "numDecoded"} /\ tnum \in 0..((2 ^ 20) - 1))
          => /\ enc = << tnum % 128, (tnum \div 128) % 128, (tnum \div 16384) % 64 >>
             /\ tnum = 16384 => enc = << 0, 0, 1 >>
             /\ tnum = 22676 => enc = << 20, 49, 1 >>
    /\ (step = "numDecoded" /\ tnum \in 0..((2 ^ 20) - 1)) => tdec = tnum

\* The largest 20-bit number has gone through both functions.
C18_Witness ==
    /\ step = "numDecoded"
    /\ tnum = (2 ^ 20) - 1
    /\ enc = << 127, 127, 63 >>
    /\ tdec = tnum

(***************************************************************************)
(* Properties of the end of the data phase.                                *)
(***************************************************************************)
\* C19 as stated: transferData never returns while its waiting is set; after
\* a Wait on the transfer's channel the program completes only once an Ack
\* has cleared it (a Nak or a Cancel ends it as fatal).
C19_NoReturnWhileWaiting ==
    [][ (pc = "data" /\ pc' = "done") => (~waiting /\ ~OnChannel(msg, Wait)) ]_vars

(***************************************************************************)
(* Properties of the header's length field.                                *)
(***************************************************************************)
\* C20 as stated: for a buffer of n samples (n is the session's length)
\* NewSendOp sets the header's Length to n, and bytes 10..12 of the encoded
\* header, decoded as a 20-bit value, are n.
C20_HeaderCarriesLength ==
    /\ phase \in {"stamped", "headed"} => header.Length = transfer.length
    /\ phase = "headed"
          => dec20bit(output[1][11], output[1][12], output[1][13]) = transfer.length

(***************************************************************************)
(* Properties of the packets and frames of a session.                      *)
(***************************************************************************)
\* The samples of the buffer that the k-th call of NextMessage (k = 0, 1,
\* ...) is to carry: the next ClaimedCap(bits) unsent ones, or what is left.
GroupOf(k) ==
    SubSeq(wave, k * ClaimedCap(bits) + 1,
           Min((k + 1) * ClaimedCap(bits), Len(wave)))

\* The frames written so far, the header first: the output of encodeSDS, or
\* what the send program has written to the connection.
Frames == IF phase = "idle" THEN sent ELSE output

\* C21: the packet NextMessage returned last is consistent: its Checksum is
\* ComputeChecksum of the packet as returned, packet number included, and is
\* the checksum byte of its encoding; its channel is the header's; the
\* samples read from its payload at the session's depth start with the next
\* unsent samples of the buffer, and every payload byte after them is zero.
C21_ReturnedPacketConsistent ==
    Len(Frames) >= 2 =>
        LET k == Len(Frames) - 2
            p == transfer.data
            g == GroupOf(k)
            w == DataLen \div ClaimedCap(bits)
        IN  /\ p.Checksum = ComputeChecksum(p)
            /\ At(Frames[k + 2], 125) = And7F(XorFold(Frames[k + 2], 1, 124))
            /\ p.Channel = header.Channel
            /\ At(Frames[k + 2], 2) = At(Frames[1], 2)
            /\ Len(g) > 0
            /\ SubSeq(GetSamples(p, << >>, bits), 1, Len(g)) = g
            /\ \A i \in (w * Len(g) + 1)..DataLen : p.Data[i] = 0
            /\ transfer.samples = SubSeq(wave, k * ClaimedCap(bits) + Len(g) + 1, Len(wave))

\* The second packet of a buffer of one packet and one sample, sent on
\* channel 5: it carries the one sample, zero padded, in the packet that
\* held the first.
C21_Witness ==
    /\ pc = "done"
    /\ bits = 16
    /\ Len(wave) = PacketCap(bits) + 1
    /\ Len(sent) = 3
    /\ transfer.data.Channel = 5
    /\ transfer.data.PacketNumber = 1
    /\ transfer.data.Data[4] = 0
    /\ At(sent[2], 8) # 0

\* C22: a call of NextMessage on a session that is Done returns nil and
\* leaves the session (sequence counter, remaining samples, scratch packet)
\* and Progress() as they were; a session over an empty buffer is Done from
\* the start and has never returned a packet.
C22_NextMessageWhenDoneIsNoOp ==
    /\ [][ Done(transfer)
             => /\ tmsg' = NilMsg
                /\ transfer' = transfer
                /\ transfer'.num = transfer.num
                /\ transfer'.samples = transfer.samples
                /\ transfer'.data = transfer.data
                /\ Progress(transfer') = Progress(transfer) ]_vars
    /\ [](Len(wave) = 0 => (Done(transfer) /\ tmsg = NilMsg))

\* A buffer of one packet and one sample has been sent in two packets, and
\* NextMessage has been called once more.
C22_Witness ==
    /\ step = "calledDone"
    /\ Len(wave) = PacketCap(bits) + 1
    /\ tmsg = NilMsg
    /\ transfer.num = 2
    /\ transfer.data.PacketNumber = 1
    /\ Progress(transfer) = 100

\* C23: every frame the transfer has written, the header first and the data
\* packets after it, starts with 0xF0 0x7E, ends with 0xF7, is 21 bytes long
\* (header) or 127 (data packet), and holds only bytes 0x00..0x7F between
\* its first and its last byte.
C23_WireFramesClean ==
    \A i \in 1..Len(sent) :
        LET f == sent[i]
        IN  /\ Len(f) = IF i = 1 THEN 21 ELSE 127
            /\ At(f, 0) = 240
            /\ At(f, 1) = 126
            /\ At(f, Len(f) - 1) = 247
            /\ \A j \in 1..(Len(f) - 2) : At(f, j) \in 0..127

\* Two packets of samples beyond the 16 bits of the depth have been sent on
\* -ch 200, -slot 70000, at sample rate 1.
C23_Witness ==
    /\ pc = "done"
    /\ cfg = [Channel |-> 200, WaveformNumber |-> 70000]
    /\ header.Period = 1000000000
    /\ header.Channel = 200
    /\ bits = 21
    /\ Len(wave) = PacketCap(bits) + 1
    /\ wave[1] = 2 ^ 30
    /\ Len(sent) = 3

=============================================================================
